---- MODULE Spec2Model ----
(***************************************************************************)
(* Model of openage/convert/gamedata/empiresdat.py: the EmpiresDat schema  *)
(* builder (get_data_format_members), the wrapper schema, get_hash, and    *)
(* the load_gamespec orchestration with its pickle cache.                  *)
(***************************************************************************)
EXTENDS Integers, Sequences, FiniteSets, TLC

(***************************************************************************)
(* Member access modes (dataformat.member_access) and storage types.       *)
(***************************************************************************)
READ == "READ"
READ_EXPORT == "READ_EXPORT"
READ_UNKNOWN == "READ_UNKNOWN"
SKIP == "SKIP"

\* Python None as a member name
None == "None"

\* GameEdition members the source names, and one value that is none of them
SWGB == "SWGB"
AOE2DE == "AOE2DE"
AOE1DE == "AOE1DE"
HDEDITION == "HDEDITION"
AOC == "AOC"
ROR == "ROR"
UNLISTED == "UNLISTED"

KnownEditions == {SWGB, AOE2DE, AOE1DE, HDEDITION, AOC, ROR}
Editions == KnownEditions \cup {UNLISTED}

\* game_version is a tuple (edition, expansions); only game_version[0] is read
Expansions == {"NOEXP", "EXP"}
GameVersions == Editions \X Expansions

\* no game_version at all
NoVersion == << None, None >>

Edition(game_version) == game_version[1]

(***************************************************************************)
(* Field descriptors.  A length is a literal or the name of a sibling.     *)
(***************************************************************************)
NoLength == [src |-> "none", n |-> 0, field |-> None]
Literal(k) == [src |-> "literal", n |-> k, field |-> None]
Sibling(f) == [src |-> "sibling", n |-> 0, field |-> f]

\* (mode, name, storage type, "ctype")
Member(mode, name, kind, type) ==
    [mode |-> mode, name |-> name, kind |-> kind, type |-> type,
     length |-> NoLength, ref |-> None, passed |-> {}, gate |-> None]

\* (mode, name, storage type, "ctype[length]")
ArrayOf(mode, name, kind, type, length) ==
    [mode |-> mode, name |-> name, kind |-> kind, type |-> type,
     length |-> length, ref |-> None, passed |-> {}, gate |-> None]

\* (mode, name, ARRAY_CONTAINER, SubdataMember(ref_type, length, passed_args, offset_to))
SubdataMember(mode, name, ref_type, length, passed_args, offset_to) ==
    [mode |-> mode, name |-> name, kind |-> "ARRAY_CONTAINER", type |-> "subdata",
     length |-> length, ref |-> ref_type, passed |-> passed_args, gate |-> offset_to]

(***************************************************************************)
(* EmpiresDat.get_data_format_members, block by block in source order.     *)
(***************************************************************************)
\* "char[8]"
VersionStrLen == 8

VersionHeader(game_version) ==
    << ArrayOf(READ, "versionstr", "STRING_MEMBER", "char", Literal(VersionStrLen)) >>

SwgbHeader(game_version) ==
    IF Edition(game_version) = SWGB
    THEN << Member(READ, "civ_count_swgb", "INT_MEMBER", "uint16_t"),
            Member(READ_UNKNOWN, None, "INT_MEMBER", "int32_t"),
            Member(READ_UNKNOWN, None, "INT_MEMBER", "int32_t"),
            Member(READ_UNKNOWN, None, "INT_MEMBER", "int32_t"),
            Member(READ_UNKNOWN, None, "INT_MEMBER", "int32_t") >>
    ELSE << >>

TerrainHeader(game_version) ==
    << Member(READ, "terrain_restriction_count", "INT_MEMBER", "uint16_t"),
       Member(READ, "terrain_count", "INT_MEMBER", "uint16_t"),
       ArrayOf(READ, "float_ptr_terrain_tables", "ARRAY_ID", "int32_t",
               Sibling("terrain_restriction_count")) >>

TerrainPassGraphics(game_version) ==
    IF Edition(game_version) \notin {ROR, AOE1DE}
    THEN << ArrayOf(READ, "terrain_pass_graphics_ptrs", "ARRAY_ID", "int32_t",
                    Sibling("terrain_restriction_count")) >>
    ELSE << >>

\* the pointers are declared signed, like the terrain pointer arrays
GraphicPtrsSigned(game_version) ==
    ArrayOf(READ, "graphic_ptrs", "ARRAY_ID", "int32_t", Sibling("graphic_count"))

GraphicPtrsMember(game_version) ==
    ArrayOf(READ, "graphic_ptrs", "ARRAY_ID", "uint32_t", Sibling("graphic_count"))

GraphicsMember(game_version) ==
    SubdataMember(READ_EXPORT, "graphics", "Graphic",
                  Sibling("graphic_count"), {}, "graphic_ptrs")

MainBlock(game_version) ==
    << SubdataMember(READ, "terrain_restrictions", "TerrainRestriction",
                     Sibling("terrain_restriction_count"), {"terrain_count"}, None),
       Member(READ, "player_color_count", "INT_MEMBER", "uint16_t"),
       SubdataMember(READ, "player_colors", "PlayerColor",
                     Sibling("player_color_count"), {}, None),
       Member(READ_EXPORT, "sound_count", "INT_MEMBER", "uint16_t"),
       SubdataMember(READ_EXPORT, "sounds", "Sound",
                     Sibling("sound_count"), {}, None),
       Member(READ, "graphic_count", "INT_MEMBER", "uint16_t"),
       GraphicPtrsMember(game_version),
       GraphicsMember(game_version),
       Member(SKIP, "virt_function_ptr", "ID_MEMBER", "int32_t"),
       Member(SKIP, "map_pointer", "ID_MEMBER", "int32_t"),
       Member(SKIP, "map_width", "INT_MEMBER", "int32_t"),
       Member(SKIP, "map_height", "INT_MEMBER", "int32_t"),
       Member(SKIP, "world_width", "INT_MEMBER", "int32_t"),
       Member(SKIP, "world_height", "INT_MEMBER", "int32_t"),
       SubdataMember(READ_EXPORT, "tile_sizes", "TileSize", Literal(19), {}, None),
       Member(SKIP, "padding1", "INT_MEMBER", "int16_t") >>

\* the HDEDITION branch repeats the AOC length
TerrainLengthHdAsAoc(game_version) ==
    IF Edition(game_version) = SWGB THEN 55
    ELSE IF Edition(game_version) = AOE2DE THEN 200
    ELSE IF Edition(game_version) = AOE1DE THEN 96
    ELSE IF Edition(game_version) = HDEDITION THEN 42
    ELSE IF Edition(game_version) = AOC THEN 42
    ELSE 32

TerrainLength(game_version) ==
    IF Edition(game_version) = SWGB THEN 55
    ELSE IF Edition(game_version) = AOE2DE THEN 200
    ELSE IF Edition(game_version) = AOE1DE THEN 96
    ELSE IF Edition(game_version) = HDEDITION THEN 100
    ELSE IF Edition(game_version) = AOC THEN 42
    ELSE 32

Terrains(game_version) ==
    << SubdataMember(READ_EXPORT, "terrains", "Terrain",
                     Literal(TerrainLength(game_version)), {}, None) >>

TerrainBorder(game_version) ==
    IF Edition(game_version) # AOE2DE
    THEN << SubdataMember(READ, "terrain_border", "TerrainBorder", Literal(16), {}, None),
            Member(SKIP, "map_row_offset", "INT_MEMBER", "int32_t") >>
    ELSE << >>

MapBounds(game_version) ==
    IF Edition(game_version) \notin {ROR, AOE1DE}
    THEN << Member(SKIP, "map_min_x", "FLOAT_MEMBER", "float"),
            Member(SKIP, "map_min_y", "FLOAT_MEMBER", "float"),
            Member(SKIP, "map_max_x", "FLOAT_MEMBER", "float"),
            Member(SKIP, "map_max_y", "FLOAT_MEMBER", "float"),
            Member(SKIP, "map_max_xplus1", "FLOAT_MEMBER", "float"),
            Member(SKIP, "map_min_yplus1", "FLOAT_MEMBER", "float") >>
    ELSE << >>

TileBlock(game_version) ==
    << Member(READ, "terrain_count_additional", "INT_MEMBER", "uint16_t"),
       Member(READ, "borders_used", "INT_MEMBER", "uint16_t"),
       Member(READ, "max_terrain", "INT_MEMBER", "int16_t"),
       Member(READ_EXPORT, "tile_width", "INT_MEMBER", "int16_t"),
       Member(READ_EXPORT, "tile_height", "INT_MEMBER", "int16_t"),
       Member(READ_EXPORT, "tile_half_height", "INT_MEMBER", "int16_t"),
       Member(READ_EXPORT, "tile_half_width", "INT_MEMBER", "int16_t"),
       Member(READ_EXPORT, "elev_height", "INT_MEMBER", "int16_t"),
       Member(SKIP, "current_row", "INT_MEMBER", "int16_t"),
       Member(SKIP, "current_column", "INT_MEMBER", "int16_t"),
       Member(SKIP, "block_beginn_row", "INT_MEMBER", "int16_t"),
       Member(SKIP, "block_end_row", "INT_MEMBER", "int16_t"),
       Member(SKIP, "block_begin_column", "INT_MEMBER", "int16_t"),
       Member(SKIP, "block_end_column", "INT_MEMBER", "int16_t") >>

SearchMapBoth(game_version) ==
    << Member(SKIP, "search_map_ptr", "INT_MEMBER", "int32_t"),
       Member(SKIP, "search_map_rows_ptr", "INT_MEMBER", "int32_t"),
       Member(SKIP, "any_frame_change", "INT_MEMBER", "int8_t"),
       Member(SKIP, "any_frame_change", "INT_MEMBER", "int32_t"),
       Member(SKIP, "search_map_ptr", "INT_MEMBER", "int32_t"),
       Member(SKIP, "search_map_rows_ptr", "INT_MEMBER", "int32_t") >>

SearchMap(game_version) ==
    IF Edition(game_version) \notin {ROR, AOE1DE}
    THEN << Member(SKIP, "search_map_ptr", "INT_MEMBER", "int32_t"),
            Member(SKIP, "search_map_rows_ptr", "INT_MEMBER", "int32_t"),
            Member(SKIP, "any_frame_change", "INT_MEMBER", "int8_t") >>
    ELSE << Member(SKIP, "any_frame_change", "INT_MEMBER", "int32_t"),
            Member(SKIP, "search_map_ptr", "INT_MEMBER", "int32_t"),
            Member(SKIP, "search_map_rows_ptr", "INT_MEMBER", "int32_t") >>

MapFlags(game_version) ==
    << Member(SKIP, "map_visible_flag", "INT_MEMBER", "int8_t"),
       Member(SKIP, "fog_flag", "INT_MEMBER", "int8_t") >>

TerrainBlobs(game_version) ==
    IF Edition(game_version) # AOE2DE
    THEN IF Edition(game_version) = SWGB
         THEN << ArrayOf(READ_UNKNOWN, "terrain_blob0", "ARRAY_INT", "uint8_t", Literal(25)),
                 ArrayOf(READ_UNKNOWN, "terrain_blob1", "ARRAY_INT", "uint32_t", Literal(157)) >>
         ELSE IF Edition(game_version) \in {ROR, AOE1DE}
         THEN << ArrayOf(READ_UNKNOWN, "terrain_blob0", "ARRAY_INT", "uint8_t", Literal(2)),
                 ArrayOf(READ_UNKNOWN, "terrain_blob1", "ARRAY_INT", "uint32_t", Literal(5)) >>
         ELSE << ArrayOf(READ_UNKNOWN, "terrain_blob0", "ARRAY_INT", "uint8_t", Literal(21)),
                 ArrayOf(READ_UNKNOWN, "terrain_blob1", "ARRAY_INT", "uint32_t", Literal(157)) >>
    ELSE << >>

RandomMapsAndEffects(game_version) ==
    << Member(READ, "random_map_count", "INT_MEMBER", "uint32_t"),
       Member(READ, "random_map_ptr", "ID_MEMBER", "uint32_t"),
       SubdataMember(READ, "map_infos", "MapInfo", Sibling("random_map_count"), {}, None),
       SubdataMember(READ, "maps", "Map", Sibling("random_map_count"), {}, None),
       Member(READ_EXPORT, "effect_bundle_count", "INT_MEMBER", "uint32_t"),
       SubdataMember(READ_EXPORT, "effect_bundles", "EffectBundle",
                     Sibling("effect_bundle_count"), {}, None) >>

UnitLines(game_version) ==
    IF Edition(game_version) = SWGB
    THEN << Member(READ, "unit_line_count", "INT_MEMBER", "uint16_t"),
            SubdataMember(READ, "unit_lines", "UnitLine",
                          Sibling("unit_line_count"), {}, None) >>
    ELSE << >>

\* the container comes before its count
UnitHeadersContainerFirst(game_version) ==
    IF Edition(game_version) \notin {ROR, AOE1DE}
    THEN << SubdataMember(READ_EXPORT, "unit_headers", "UnitHeader",
                          Sibling("unit_count"), {}, None),
            Member(READ_EXPORT, "unit_count", "INT_MEMBER", "uint32_t") >>
    ELSE << >>

UnitHeaders(game_version) ==
    IF Edition(game_version) \notin {ROR, AOE1DE}
    THEN << Member(READ_EXPORT, "unit_count", "INT_MEMBER", "uint32_t"),
            SubdataMember(READ_EXPORT, "unit_headers", "UnitHeader",
                          Sibling("unit_count"), {}, None) >>
    ELSE << >>

Civs(game_version) ==
    << Member(READ_EXPORT, "civ_count", "INT_MEMBER", "uint16_t"),
       SubdataMember(READ_EXPORT, "civs", "Civ", Sibling("civ_count"), {}, None) >>

SwgbUnknown(game_version) ==
    IF Edition(game_version) = SWGB
    THEN << Member(READ_UNKNOWN, None, "INT_MEMBER", "int8_t") >>
    ELSE << >>

Researches(game_version) ==
    << Member(READ_EXPORT, "research_count", "INT_MEMBER", "uint16_t"),
       SubdataMember(READ_EXPORT, "researches", "Tech",
                     Sibling("research_count"), {}, None) >>

UnitConnectionCount(game_version) ==
    IF Edition(game_version) = SWGB
    THEN Member(READ_EXPORT, "unit_connection_count", "INT_MEMBER", "uint16_t")
    ELSE Member(READ_EXPORT, "unit_connection_count", "INT_MEMBER", "uint8_t")

TechTree(game_version) ==
    IF Edition(game_version) \notin {ROR, AOE1DE}
    THEN << Member(SKIP, "time_slice", "INT_MEMBER", "int32_t"),
            Member(SKIP, "unit_kill_rate", "INT_MEMBER", "int32_t"),
            Member(SKIP, "unit_kill_total", "INT_MEMBER", "int32_t"),
            Member(SKIP, "unit_hitpoint_rate", "INT_MEMBER", "int32_t"),
            Member(SKIP, "unit_hitpoint_total", "INT_MEMBER", "int32_t"),
            Member(SKIP, "razing_kill_rate", "INT_MEMBER", "int32_t"),
            Member(SKIP, "razing_kill_total", "INT_MEMBER", "int32_t"),
            Member(READ_EXPORT, "age_connection_count", "INT_MEMBER", "uint8_t"),
            Member(READ_EXPORT, "building_connection_count", "INT_MEMBER", "uint8_t"),
            UnitConnectionCount(game_version),
            Member(READ_EXPORT, "tech_connection_count", "INT_MEMBER", "uint8_t"),
            Member(READ_EXPORT, "total_unit_tech_groups", "INT_MEMBER", "int32_t"),
            SubdataMember(READ_EXPORT, "age_connections", "AgeTechTree",
                          Sibling("age_connection_count"), {}, None),
            SubdataMember(READ_EXPORT, "building_connections", "BuildingConnection",
                          Sibling("building_connection_count"), {}, None),
            SubdataMember(READ_EXPORT, "unit_connections", "UnitConnection",
                          Sibling("unit_connection_count"), {}, None),
            SubdataMember(READ_EXPORT, "tech_connections", "ResearchConnection",
                          Sibling("tech_connection_count"), {}, None) >>
    ELSE << >>

\* EmpiresDat.get_data_format_members(cls, game_version): there is no raise
\* in the method, every game_version yields a list.
get_data_format_members(game_version) ==
    VersionHeader(game_version) \o SwgbHeader(game_version)
      \o TerrainHeader(game_version) \o TerrainPassGraphics(game_version)
      \o MainBlock(game_version) \o Terrains(game_version)
      \o TerrainBorder(game_version) \o MapBounds(game_version)
      \o TileBlock(game_version) \o SearchMap(game_version)
      \o MapFlags(game_version) \o TerrainBlobs(game_version)
      \o RandomMapsAndEffects(game_version) \o UnitLines(game_version)
      \o UnitHeaders(game_version) \o Civs(game_version)
      \o SwgbUnknown(game_version) \o Researches(game_version)
      \o SwgbUnknown(game_version) \o TechTree(game_version)

\* EmpiresDatWrapper.get_data_format_members(cls, game_version)
wrapper_get_data_format_members(game_version) ==
    << SubdataMember(READ_EXPORT, "empiresdat", "EmpiresDat", Literal(1), {}, None) >>

(***************************************************************************)
(* EmpiresDat.get_hash(cls): cls.format_hash().hexdigest().  The method     *)
(* takes no game_version and hands none to format_hash.  format_hash lives *)
(* in GenieStructure; it is modelled as the canonical form of a descriptor *)
(* list (mode, name, storage kind, ctype, element schema, length source,   *)
(* gate), order-sensitive.  The list it hashes cannot come from get_hash's *)
(* caller: format_version stands for whatever version format_hash uses     *)
(* (NoVersion: it cannot build a list and raises).                         *)
(***************************************************************************)
NoHash == "no hash"
HashError == "TypeError"

Canonical(d) ==
    << d.mode, d.name, d.kind, d.type, d.ref, d.length.src, d.length.field, d.gate >>

Fingerprint(members) == [i \in 1..Len(members) |-> Canonical(members[i])]

\* hexdigest(): equal digests for equal canonical forms and different digests
\* for different ones; a digest is written as the first edition, in a fixed
\* order, whose canonical form it is.
EditionOrder == << SWGB, AOE2DE, AOE1DE, HDEDITION, AOC, ROR, UNLISTED >>

hexdigest(canonical) ==
    LET same == {i \in 1..Len(EditionOrder) :
                    Fingerprint(get_data_format_members(<< EditionOrder[i], "NOEXP" >>))
                        = canonical}
    IN  IF same = {} THEN "digest of no edition"
        ELSE EditionOrder[CHOOSE i \in same : \A j \in same : i <= j]

format_hash(version) ==
    IF version = NoVersion THEN HashError
    ELSE hexdigest(Fingerprint(get_data_format_members(version)))

(***************************************************************************)
(* Values of the decoded tree.  Lists, members and structure nodes share   *)
(* one record shape so that any two of them can be compared.               *)
(***************************************************************************)
NoValue == [tag |-> "none", name |-> None, n |-> 0, items |-> << >>, bytes |-> << >>]
ListValue(items) == [tag |-> "list", name |-> None, n |-> 0, items |-> items, bytes |-> << >>]
MemberValue(name, items) ==
    [tag |-> "member", name |-> name, n |-> 0, items |-> items, bytes |-> << >>]
NodeValue(struct, n, bytes) ==
    [tag |-> "node", name |-> struct, n |-> n, items |-> << >>, bytes |-> bytes]

Failure(exc) == [ok |-> FALSE, exc |-> exc, value |-> NoValue, data |-> << >>]
Success(v) == [ok |-> TRUE, exc |-> None, value |-> v, data |-> << >>]
Bytes(b) == [ok |-> TRUE, exc |-> None, value |-> NoValue, data |-> b]

(***************************************************************************)
(* zlib.decompress(compressed_data, -15): the raw stream is modelled as    *)
(* run-length pairs <<count, byte>>; a run of length 0 is an invalid       *)
(* stream and raises zlib.error.                                           *)
(***************************************************************************)
RECURSIVE Inflate(_)
Inflate(c) ==
    IF c = << >> THEN << >>
    ELSE [i \in 1..Head(c)[1] |-> Head(c)[2]] \o Inflate(Tail(c))

decompress(compressed_data) ==
    IF \E i \in 1..Len(compressed_data) : compressed_data[i][1] = 0
    THEN Failure("zlib.error")
    ELSE Bytes(Inflate(compressed_data))

(***************************************************************************)
(* GenieStructure.read(raw, offset, game_version) for the wrapper: one     *)
(* member per stored descriptor, each container holding `length` decoded   *)
(* EmpiresDat nodes.  A node needs the bytes of its leading versionstr;    *)
(* it keeps the bytes it consumed and the number of members it stores.     *)
(***************************************************************************)
Stored(members) ==
    Cardinality({i \in 1..Len(members) :
                    members[i].mode \in {READ, READ_EXPORT} /\ members[i].name # None})

RECURSIVE ReadElements(_, _, _, _)
ReadElements(raw, offset, count, game_version) ==
    IF count = 0 THEN [ok |-> TRUE, offset |-> offset, items |-> << >>]
    ELSE IF Len(raw) - offset < VersionStrLen
         THEN [ok |-> FALSE, offset |-> offset, items |-> << >>]
         ELSE LET node == NodeValue("empiresdat",
                                    Stored(get_data_format_members(game_version)),
                                    SubSeq(raw, offset + 1, Len(raw)))
                  rest == ReadElements(raw, Len(raw), count - 1, game_version)
              IN  [ok |-> rest.ok, offset |-> rest.offset,
                   items |-> << node >> \o rest.items]

RECURSIVE ReadMembers(_, _, _, _)
ReadMembers(members, raw, offset, game_version) ==
    IF members = << >> THEN [ok |-> TRUE, offset |-> offset, items |-> << >>]
    ELSE LET m == Head(members)
             here == ReadElements(raw, offset, m.length.n, game_version)
             rest == ReadMembers(Tail(members), raw, here.offset, game_version)
         IN  IF ~here.ok THEN [ok |-> FALSE, offset |-> offset, items |-> << >>]
             ELSE [ok |-> rest.ok, offset |-> rest.offset,
                   items |-> << MemberValue(m.name, here.items) >> \o rest.items]

\* wrapper.read(file_data, 0, game_version) -> (offset, list of members)
read(raw, offset, game_version) ==
    LET r == ReadMembers(wrapper_get_data_format_members(game_version),
                         raw, offset, game_version)
    IN  IF r.ok THEN Success(ListValue(r.items)) ELSE Failure("TruncatedInput")

(***************************************************************************)
(* pickle.dump / pickle.load: a value is written as a token stream         *)
(* PROTO, (MARK, NAME, BYTE*, children, BUILD)..., STOP and read back by a *)
(* stack machine; any malformed stream makes pickle.load raise.            *)
(***************************************************************************)
Tok(op, s, n) == [op |-> op, s |-> s, n |-> n]

RECURSIVE Encode(_)
RECURSIVE EncodeAll(_)
Encode(v) ==
    << Tok("MARK", v.tag, 0), Tok("NAME", v.name, v.n) >>
      \o [i \in 1..Len(v.bytes) |-> Tok("BYTE", None, v.bytes[i])]
      \o EncodeAll(v.items)
      \o << Tok("BUILD", v.tag, Len(v.items)) >>
EncodeAll(vs) == IF vs = << >> THEN << >> ELSE Encode(Head(vs)) \o EncodeAll(Tail(vs))

pickle_dumps(obj) ==
    << Tok("PROTO", "pickle", 0) >> \o Encode(obj) \o << Tok("STOP", None, 0) >>

Frame(tag) == [tag |-> tag, name |-> None, n |-> 0, items |-> << >>, bytes |-> << >>]
Top(stack) == stack[Len(stack)]
Pop(stack) == SubSeq(stack, 1, Len(stack) - 1)
SetTop(stack, v) == [stack EXCEPT ![Len(stack)] = v]

RECURSIVE Machine(_, _, _)
Machine(toks, i, stack) ==
    IF i > Len(toks) THEN Failure("UnpicklingError")
    ELSE LET t == toks[i] IN
      CASE t.op = "PROTO" ->
             IF i = 1 /\ t.s = "pickle" THEN Machine(toks, i + 1, stack)
             ELSE Failure("UnpicklingError")
        [] t.op = "MARK" -> Machine(toks, i + 1, Append(stack, Frame(t.s)))
        [] t.op = "NAME" ->
             IF Len(stack) < 2 THEN Failure("UnpicklingError")
             ELSE Machine(toks, i + 1,
                          SetTop(stack, [Top(stack) EXCEPT !.name = t.s, !.n = t.n]))
        [] t.op = "BYTE" ->
             IF Len(stack) < 2 THEN Failure("UnpicklingError")
             ELSE Machine(toks, i + 1,
                          SetTop(stack, [Top(stack) EXCEPT !.bytes = Append(@, t.n)]))
        [] t.op = "BUILD" ->
             IF Len(stack) < 2 \/ Top(stack).tag # t.s \/ Len(Top(stack).items) # t.n
             THEN Failure("UnpicklingError")
             ELSE LET v == Top(stack)
                      below == Pop(stack)
                  IN  Machine(toks, i + 1,
                              SetTop(below, [Top(below) EXCEPT !.items = Append(@, v)]))
        [] t.op = "STOP" ->
             IF i = Len(toks) /\ Len(stack) = 1 /\ Len(stack[1].items) = 1
             THEN Success(stack[1].items[1])
             ELSE Failure("UnpicklingError")
        [] OTHER -> Failure("UnpicklingError")

pickle_loads(payload) ==
    IF payload = << >> THEN Failure("EOFError")
    ELSE Machine(payload, 1, << Frame("root") >>)

(***************************************************************************)
(* Inputs.                                                                 *)
(***************************************************************************)
\* number of load_gamespec calls in one run
MaxCalls == 2

\* contents of the dat file object: two that decode, one too short for the
\* leading versionstr, one that is no valid compressed stream
FileContents ==
    { << <<VersionStrLen, 1>> >>,
      << <<VersionStrLen, 2>>, <<1, 3>> >>,
      << <<VersionStrLen - 1, 1>> >>,
      << <<0, 1>> >> }

CacheNames == {"cache.pickle"}

\* versions load_gamespec is called with
LoadVersions == {<<AOC, "NOEXP">>, <<ROR, "NOEXP">>, <<SWGB, "EXP">>, <<UNLISTED, "NOEXP">>}

\* the cache file as a previous run, or anything else, may have left it
File(exists, readable, writable, payload) ==
    [exists |-> exists, readable |-> readable, writable |-> writable, payload |-> payload]

Absent == File(FALSE, FALSE, TRUE, << >>)

EarlierTree ==
    MemberValue("empiresdat",
                << NodeValue("empiresdat", Stored(get_data_format_members(<<AOC, "NOEXP">>)),
                             [i \in 1..VersionStrLen |-> 7]) >>)

Garbage == << Tok("BYTE", None, 255), Tok("STOP", None, 0) >>

InitialCacheFiles ==
    { Absent,
      File(TRUE, TRUE, TRUE, pickle_dumps(EarlierTree)),
      File(TRUE, TRUE, TRUE, Garbage),
      File(TRUE, TRUE, FALSE, Garbage),
      File(TRUE, TRUE, FALSE, pickle_dumps(EarlierTree)),
      File(TRUE, FALSE, TRUE, pickle_dumps(EarlierTree)),
      File(FALSE, FALSE, FALSE, << >>) }

NoError == [exc |-> None, at |-> None]

(***************************************************************************)
(* State.                                                                  *)
(***************************************************************************)
VARIABLES
    pc,               \* position in load_gamespec
    calls,            \* calls made so far
    fileobj,          \* the dat file object: its data, whether read, whether closed
    game_version,     \* argument
    cachefile_name,   \* argument (None: not given)
    load_cache,       \* argument
    cachefile,        \* the file cachefile_name names
    cache_before,     \* cachefile as it was when the call started
    compressed_data,
    file_data,
    gamespec,
    wrapper_format,   \* the wrapper's member list used by wrapper.read
    cache_hit,        \* "using cached wrapper" was logged
    result,           \* the value returned to the caller
    error,            \* the exception that reached the caller, and where it rose
    events,           \* what the call did, in order
    last_stored,      \* the tree returned by the latest call that dumped it
    schema_version,   \* argument of the latest get_data_format_members call
    data_format,      \* its result
    format_version,   \* the version format_hash builds its list for
    hashes            \* get_hash() as obtained while working on each edition

VARIABLES
    cc_pc,            \* position in the compliance checker's main
    fix,              \* args.fix
    only_changed_files, \* args.only_changed_files (None: not given)
    found,            \* what find_all_issues yields, in order
    seen,             \* how many of them the for loop has taken
    issues_count,
    auto_fixes,
    fixes_possible,
    applied,          \* auto fixes called so far
    returned          \* main's return value

VARIABLES
    g_pc,             \* position in the decoding of the graphic members
    g_version,        \* the version they are decoded for
    siblings,         \* the members decoded so far, by name
    graphics          \* the "graphics" container as decoded

gateVars == << g_pc, g_version, siblings, graphics >>

complianceVars == << cc_pc, fix, only_changed_files, found, seen, issues_count,
                     auto_fixes, fixes_possible, applied, returned >>

vars == << pc, calls, fileobj, game_version, cachefile_name, load_cache, cachefile,
           cache_before, compressed_data, file_data, gamespec, wrapper_format,
           cache_hit, result, error, events, last_stored,
           schema_version, data_format, format_version, hashes,
           cc_pc, fix, only_changed_files, found, seen, issues_count,
           auto_fixes, fixes_possible, applied, returned,
           g_pc, g_version, siblings, graphics >>

loadVars == << pc, calls, fileobj, game_version, cachefile_name, load_cache, cachefile,
               cache_before, compressed_data, file_data, gamespec, wrapper_format,
               cache_hit, result, error, events, last_stored >>

schemaVars == << schema_version, data_format, format_version, hashes >>

\* EmpiresDat.get_hash(cls)
get_hash == format_hash(format_version)

LoadInit ==
    /\ pc = "idle"
    /\ calls = 0
    /\ fileobj = [data |-> << >>, read |-> FALSE, closed |-> FALSE]
    /\ game_version = NoVersion
    /\ cachefile_name = None
    /\ load_cache = FALSE
    /\ cache_before = Absent
    /\ compressed_data = << >>
    /\ file_data = << >>
    /\ gamespec = NoValue
    /\ wrapper_format = << >>
    /\ cache_hit = FALSE
    /\ result = NoValue
    /\ error = NoError
    /\ events = << >>
    /\ last_stored = NoValue

SchemaInit ==
    /\ schema_version = NoVersion
    /\ data_format = << >>
    /\ hashes = [e \in Editions |-> NoHash]

ComplianceInit ==
    /\ cc_pc = "idle"
    /\ fix = FALSE
    /\ only_changed_files = None
    /\ found = << >>
    /\ seen = 0
    /\ issues_count = 0
    /\ auto_fixes = << >>
    /\ fixes_possible = FALSE
    /\ applied = 0
    /\ returned = None

GateInit ==
    /\ g_pc = "idle"
    /\ g_version = NoVersion
    /\ siblings = << >>
    /\ graphics = << >>

Init ==
    /\ LoadInit
    /\ SchemaInit
    /\ ComplianceInit
    /\ GateInit
    /\ cachefile \in InitialCacheFiles
    /\ format_version = NoVersion

(***************************************************************************)
(* load_gamespec(fileobj, game_version, cachefile_name=None,               *)
(*               load_cache=False), one action per step.                   *)
(***************************************************************************)
Call(data, version, name, use_cache) ==
    /\ pc \in {"idle", "returned", "raised"}
    /\ calls < MaxCalls
    /\ calls' = calls + 1
    /\ fileobj' = [data |-> data, read |-> FALSE, closed |-> FALSE]
    /\ game_version' = version
    /\ cachefile_name' = name
    /\ load_cache' = use_cache
    /\ cache_before' = cachefile
    /\ compressed_data' = << >>
    /\ file_data' = << >>
    /\ gamespec' = NoValue
    /\ wrapper_format' = << >>
    /\ cache_hit' = FALSE
    /\ result' = NoValue
    /\ error' = NoError
    /\ events' = << >>
    /\ pc' = "try_cache"
    /\ UNCHANGED << cachefile, last_stored >>
    /\ UNCHANGED schemaVars
    /\ UNCHANGED << complianceVars, gateVars >>

\* if cachefile_name and load_cache: try: with open(cachefile_name, "rb") ...
\* except FileNotFoundError: pass
TryCache ==
    /\ pc = "try_cache"
    /\ IF cachefile_name # None /\ load_cache
       THEN /\ events' = Append(events, "open_cache_rb")
            /\ IF ~cachefile.exists
               THEN pc' = "read_file" /\ error' = error
               ELSE IF ~cachefile.readable
               THEN pc' = "raised" /\ error' = [exc |-> "PermissionError", at |-> "cache_load"]
               ELSE pc' = "pickle_load" /\ error' = error
       ELSE /\ pc' = "read_file"
            /\ UNCHANGED << events, error >>
    /\ UNCHANGED << calls, fileobj, game_version, cachefile_name, load_cache, cachefile,
                    cache_before, compressed_data, file_data, gamespec, wrapper_format,
                    cache_hit, result, last_stored >>
    /\ UNCHANGED schemaVars
    /\ UNCHANGED << complianceVars, gateVars >>

\* the hit falls through to the decode instead of returning
PickleLoadFallThrough ==
    /\ pc = "pickle_load"
    /\ events' = Append(events, "pickle_load")
    /\ LET r == pickle_loads(cachefile.payload)
       IN  IF r.ok
           THEN result' = r.value /\ cache_hit' = TRUE /\ pc' = "read_file"
           ELSE result' = result /\ cache_hit' = cache_hit /\ pc' = "read_file"
    /\ UNCHANGED << calls, fileobj, game_version, cachefile_name, load_cache, cachefile,
                    cache_before, compressed_data, file_data, gamespec, wrapper_format,
                    error, last_stored >>
    /\ UNCHANGED schemaVars
    /\ UNCHANGED << complianceVars, gateVars >>

\* try: wrapper = pickle.load(cachefile); return wrapper / except Exception: warn
PickleLoad ==
    /\ pc = "pickle_load"
    /\ events' = Append(events, "pickle_load")
    /\ LET r == pickle_loads(cachefile.payload)
       IN  IF r.ok
           THEN result' = r.value /\ cache_hit' = TRUE /\ pc' = "returned"
           ELSE result' = result /\ cache_hit' = cache_hit /\ pc' = "read_file"
    /\ UNCHANGED << calls, fileobj, game_version, cachefile_name, load_cache, cachefile,
                    cache_before, compressed_data, file_data, gamespec, wrapper_format,
                    error, last_stored >>
    /\ UNCHANGED schemaVars
    /\ UNCHANGED << complianceVars, gateVars >>

\* compressed_data = fileobj.read(); fileobj.close()
ReadFile ==
    /\ pc = "read_file"
    /\ compressed_data' = fileobj.data
    /\ fileobj' = [fileobj EXCEPT !.read = TRUE, !.closed = TRUE]
    /\ events' = events \o << "read", "close" >>
    /\ pc' = "decompress"
    /\ UNCHANGED << calls, game_version, cachefile_name, load_cache, cachefile,
                    cache_before, file_data, gamespec, wrapper_format, cache_hit,
                    result, error, last_stored >>
    /\ UNCHANGED schemaVars
    /\ UNCHANGED << complianceVars, gateVars >>

\* a failed decompression is swallowed and the call goes on to the store
DecompressSwallowed ==
    /\ pc = "decompress"
    /\ events' = Append(events, "decompress")
    /\ LET r == decompress(compressed_data)
       IN  IF r.ok
           THEN file_data' = r.data /\ pc' = "decode" /\ error' = error
           ELSE file_data' = file_data /\ pc' = "store" /\ error' = error
    /\ compressed_data' = << >>
    /\ UNCHANGED << calls, fileobj, game_version, cachefile_name, load_cache, cachefile,
                    cache_before, gamespec, wrapper_format, cache_hit, result,
                    last_stored >>
    /\ UNCHANGED schemaVars
    /\ UNCHANGED << complianceVars, gateVars >>

\* file_data = decompress(compressed_data, -15); del compressed_data
Decompress ==
    /\ pc = "decompress"
    /\ events' = Append(events, "decompress")
    /\ LET r == decompress(compressed_data)
       IN  IF r.ok
           THEN file_data' = r.data /\ pc' = "decode" /\ error' = error
           ELSE file_data' = file_data /\ pc' = "raised"
                /\ error' = [exc |-> r.exc, at |-> "decode"]
    /\ compressed_data' = << >>
    /\ UNCHANGED << calls, fileobj, game_version, cachefile_name, load_cache, cachefile,
                    cache_before, gamespec, wrapper_format, cache_hit, result,
                    last_stored >>
    /\ UNCHANGED schemaVars
    /\ UNCHANGED << complianceVars, gateVars >>

\* wrapper = EmpiresDatWrapper(); _, gamespec = wrapper.read(file_data, 0, game_version)
Read ==
    /\ pc = "decode"
    /\ events' = Append(events, "decode")
    /\ wrapper_format' = wrapper_get_data_format_members(game_version)
    /\ LET r == read(file_data, 0, game_version)
       IN  IF r.ok
           THEN gamespec' = r.value /\ pc' = "unwrap" /\ error' = error
           ELSE gamespec' = gamespec /\ pc' = "raised"
                /\ error' = [exc |-> r.exc, at |-> "decode"]
    /\ UNCHANGED << calls, fileobj, game_version, cachefile_name, load_cache, cachefile,
                    cache_before, compressed_data, file_data, cache_hit, result,
                    last_stored >>
    /\ UNCHANGED schemaVars
    /\ UNCHANGED << complianceVars, gateVars >>

\* the list is kept as it is
KeepList(list) == list

\* gamespec = gamespec[0]
Unwrapped(list) == list.items[1]

Unwrap ==
    /\ pc = "unwrap"
    /\ gamespec' = Unwrapped(gamespec)
    /\ pc' = "store"
    /\ UNCHANGED << calls, fileobj, game_version, cachefile_name, load_cache, cachefile,
                    cache_before, compressed_data, file_data, wrapper_format, cache_hit,
                    result, error, events, last_stored >>
    /\ UNCHANGED schemaVars
    /\ UNCHANGED << complianceVars, gateVars >>

\* the surrounding list is dumped instead of the tree
DumpedWrapped(tree) == ListValue(<< tree >>)

\* pickle.dump(gamespec, cachefile): the object written
Dumped(tree) == tree

StrictPrefixes(s) == { SubSeq(s, 1, k) : k \in 0..(Len(s) - 1) }

\* if cachefile_name: with open(cachefile_name, "wb") as cachefile:
\*     pickle.dump(gamespec, cachefile)
\* open() truncates; a dump that fails leaves a strict prefix behind.
Store ==
    /\ pc = "store"
    /\ IF cachefile_name # None
       THEN \/ /\ cachefile.writable
               /\ events' = events \o << "open_cache_wb", "pickle_dump" >>
               /\ cachefile' = File(TRUE, IF cachefile.exists THEN cachefile.readable ELSE TRUE,
                                    TRUE, pickle_dumps(Dumped(gamespec)))
               /\ pc' = "return"
               /\ UNCHANGED << error, last_stored >>
            \/ /\ cachefile.writable
               /\ events' = events \o << "open_cache_wb", "pickle_dump" >>
               /\ \E partial \in StrictPrefixes(pickle_dumps(Dumped(gamespec))) :
                     cachefile' = File(TRUE,
                                       IF cachefile.exists THEN cachefile.readable ELSE TRUE,
                                       TRUE, partial)
               /\ pc' = "raised"
               /\ error' = [exc |-> "OSError", at |-> "store"]
               /\ last_stored' = NoValue
            \/ /\ ~cachefile.writable
               /\ events' = Append(events, "open_cache_wb")
               /\ pc' = "raised"
               /\ error' = [exc |-> "PermissionError", at |-> "store"]
               /\ UNCHANGED << cachefile, last_stored >>
       ELSE /\ pc' = "return"
            /\ UNCHANGED << cachefile, events, error, last_stored >>
    /\ UNCHANGED << calls, fileobj, game_version, cachefile_name, load_cache,
                    cache_before, compressed_data, file_data, gamespec, wrapper_format,
                    cache_hit, result >>
    /\ UNCHANGED schemaVars
    /\ UNCHANGED << complianceVars, gateVars >>

\* return gamespec
Return ==
    /\ pc = "return"
    /\ result' = gamespec
    /\ pc' = "returned"
    /\ last_stored' = IF cachefile_name # None THEN gamespec ELSE last_stored
    /\ UNCHANGED << calls, fileobj, game_version, cachefile_name, load_cache, cachefile,
                    cache_before, compressed_data, file_data, gamespec, wrapper_format,
                    cache_hit, error, events >>
    /\ UNCHANGED schemaVars
    /\ UNCHANGED << complianceVars, gateVars >>

Next ==
    \/ \E data \in FileContents, version \in LoadVersions,
          name \in CacheNames \cup {None}, use_cache \in BOOLEAN :
            Call(data, version, name, use_cache)
    \/ TryCache
    \/ PickleLoad
    \/ ReadFile
    \/ Decompress
    \/ Read
    \/ Unwrap
    \/ Store
    \/ Return

Spec == Init /\ [][Next]_vars

(***************************************************************************)
(* The schema builder and get_hash as called for each version.             *)
(***************************************************************************)
BuildSchema(version) ==
    /\ schema_version' = version
    /\ data_format' = get_data_format_members(version)
    /\ UNCHANGED << format_version, hashes >>
    /\ UNCHANGED loadVars
    /\ UNCHANGED << complianceVars, gateVars >>

\* EmpiresDat.get_hash() called while the version at hand is `version`;
\* the editions are taken in EditionOrder
GetHash(version) ==
    /\ hashes[Edition(version)] = NoHash
    /\ \A i, j \in 1..Len(EditionOrder) :
          (i < j /\ EditionOrder[j] = Edition(version)) => hashes[EditionOrder[i]] # NoHash
    /\ hashes' = [hashes EXCEPT ![Edition(version)] = get_hash]
    /\ UNCHANGED << schema_version, data_format, format_version >>
    /\ UNCHANGED loadVars
    /\ UNCHANGED << complianceVars, gateVars >>

HashVersions == Editions \X {"NOEXP"}

SchemaStart ==
    /\ LoadInit
    /\ SchemaInit
    /\ ComplianceInit
    /\ GateInit
    /\ cachefile = Absent
    /\ format_version \in HashVersions \cup {NoVersion}

SchemaNext ==
    \/ \E version \in GameVersions : BuildSchema(version)
    \/ \E version \in HashVersions : GetHash(version)

SchemaSpec == SchemaStart /\ [][SchemaNext]_vars

(***************************************************************************)
(* buildsystem/codecompliance/__main__.py: main(args).  What the issue     *)
(* checkers behind find_all_issues yield is an input: a sequence of        *)
(* (title, text, apply_fix) with apply_fix a callable or None.             *)
(***************************************************************************)
\* issues find_all_issues yields in one run
MaxIssues == 3

Issues == { [title |-> "fixable", apply_fix |-> "fix"],
            [title |-> "plain", apply_fix |-> None] }

IssueLists == UNION { [1..k -> Issues] : k \in 0..MaxIssues }

GitRefs == {None, "HEAD~1"}

Main(use_fix, gitref, issues) ==
    /\ cc_pc = "idle"
    /\ fix' = use_fix
    /\ only_changed_files' = gitref
    /\ found' = issues
    /\ cc_pc' = "changed_files"
    /\ UNCHANGED << seen, issues_count, auto_fixes, fixes_possible, applied, returned >>
    /\ UNCHANGED << loadVars, schemaVars, gateVars >>

\* if args.only_changed_files: check_files = get_changed_files(...), which
\* raises RuntimeError when git fails; auto_fixes = []; issues_count = 0
ChangedFiles ==
    /\ cc_pc = "changed_files"
    /\ \/ cc_pc' = "loop"
       \/ only_changed_files # None /\ cc_pc' = "raised"
    /\ auto_fixes' = << >>
    /\ fixes_possible' = FALSE
    /\ issues_count' = 0
    /\ UNCHANGED << fix, only_changed_files, found, seen, applied, returned >>
    /\ UNCHANGED << loadVars, schemaVars, gateVars >>

\* the body of: for title, text, apply_fix in find_all_issues(args, check_files)
Issue ==
    /\ cc_pc = "loop"
    /\ seen < Len(found)
    /\ seen' = seen + 1
    /\ issues_count' = issues_count + 1
    /\ LET apply_fix == found[seen + 1].apply_fix
       IN  IF apply_fix # None
           THEN /\ fixes_possible' = TRUE
                /\ auto_fixes' = IF fix THEN Append(auto_fixes, apply_fix) ELSE auto_fixes
           ELSE UNCHANGED << fixes_possible, auto_fixes >>
    /\ UNCHANGED << cc_pc, fix, only_changed_files, found, applied, returned >>
    /\ UNCHANGED << loadVars, schemaVars, gateVars >>

\* the generator is exhausted
EndLoop ==
    /\ cc_pc = "loop"
    /\ seen = Len(found)
    /\ cc_pc' = "apply"
    /\ UNCHANGED << fix, only_changed_files, found, seen, issues_count, auto_fixes,
                    fixes_possible, applied, returned >>
    /\ UNCHANGED << loadVars, schemaVars, gateVars >>

\* the count is left as it is
CountKept(count) == count

\* issues_count -= 1
CountAfterFix(count) == count - 1

\* if args.fix and auto_fixes: for auto_fix in auto_fixes: print(auto_fix()); ...
ApplyFix ==
    /\ cc_pc = "apply"
    /\ fix /\ auto_fixes # << >>
    /\ applied < Len(auto_fixes)
    /\ applied' = applied + 1
    /\ issues_count' = CountAfterFix(issues_count)
    /\ UNCHANGED << cc_pc, fix, only_changed_files, found, seen, auto_fixes,
                    fixes_possible, returned >>
    /\ UNCHANGED << loadVars, schemaVars, gateVars >>

\* return issues_count == 0
Report ==
    /\ cc_pc = "apply"
    /\ ~(fix /\ auto_fixes # << >>) \/ applied = Len(auto_fixes)
    /\ returned' = IF issues_count = 0 THEN "True" ELSE "False"
    /\ cc_pc' = "returned"
    /\ UNCHANGED << fix, only_changed_files, found, seen, issues_count, auto_fixes,
                    fixes_possible, applied >>
    /\ UNCHANGED << loadVars, schemaVars, gateVars >>

ComplianceNext ==
    \/ \E use_fix \in BOOLEAN, gitref \in GitRefs, issues \in IssueLists :
          Main(use_fix, gitref, issues)
    \/ ChangedFiles
    \/ Issue
    \/ EndLoop
    \/ ApplyFix
    \/ Report

ComplianceStart ==
    /\ LoadInit
    /\ SchemaInit
    /\ ComplianceInit
    /\ GateInit
    /\ cachefile = Absent
    /\ format_version = NoVersion

ComplianceSpec == ComplianceStart /\ [][ComplianceNext]_vars

(***************************************************************************)
(* Decoding of graphic_count, graphic_ptrs and the gated graphics          *)
(* container.  A 32 bit value is kept as a sign and two 16 bit halves of   *)
(* its magnitude.  GenieStructure.read is modelled from the decoder's      *)
(* description: an array or container takes its length from the sibling    *)
(* its descriptor names, and element i of a gated container is decoded     *)
(* when the gate's predicate accepts entry i of the gate array.            *)
(***************************************************************************)
\* graphics in one file
MaxGraphics == 3

\* little-endian entries: 0, 1, 65536, 2^31 - 1, 2^31, 2^32 - 1
PtrSamples ==
    { << 0, 0, 0, 0 >>, << 1, 0, 0, 0 >>, << 0, 0, 1, 0 >>,
      << 255, 255, 255, 127 >>, << 0, 0, 0, 128 >>, << 255, 255, 255, 255 >> }

\* struct.unpack of four bytes as "uint32_t" or "int32_t"
unpack(type, b) ==
    LET lo == b[1] + 256 * b[2]
        hi == b[3] + 256 * b[4]
    IN  IF type = "int32_t" /\ hi >= 32768
        THEN [neg |-> TRUE,
              hi |-> 65535 - hi + (IF lo = 0 THEN 1 ELSE 0),
              lo |-> (65536 - lo) % 65536]
        ELSE [neg |-> FALSE, hi |-> hi, lo |-> lo]

\* offset_to = ("graphic_ptrs", lambda o: o > 0)
OffsetPresent(o) == ~o.neg /\ (o.hi > 0 \/ o.lo > 0)

StartDecode(version) ==
    /\ g_pc = "idle"
    /\ g_version' = version
    /\ g_pc' = "count"
    /\ UNCHANGED << siblings, graphics >>
    /\ UNCHANGED << loadVars, schemaVars, complianceVars >>

\* (READ, "graphic_count", INT_MEMBER, "uint16_t")
ReadGraphicCount(n) ==
    /\ g_pc = "count"
    /\ siblings' = siblings @@ ("graphic_count" :> n)
    /\ g_pc' = "ptrs"
    /\ UNCHANGED << g_version, graphics >>
    /\ UNCHANGED << loadVars, schemaVars, complianceVars >>

\* (READ, "graphic_ptrs", ARRAY_ID, "uint32_t[graphic_count]")
ReadGraphicPtrs ==
    /\ g_pc = "ptrs"
    /\ LET d == GraphicPtrsMember(g_version)
       IN  \E raw \in [1..siblings[d.length.field] -> PtrSamples] :
              siblings' = siblings @@
                  (d.name :> [i \in 1..Len(raw) |-> unpack(d.type, raw[i])])
    /\ g_pc' = "graphics"
    /\ UNCHANGED << g_version, graphics >>
    /\ UNCHANGED << loadVars, schemaVars, complianceVars >>

\* (READ_EXPORT, "graphics", ARRAY_CONTAINER, SubdataMember(Graphic,
\*     length="graphic_count", offset_to=("graphic_ptrs", lambda o: o > 0)))
ReadGraphics ==
    /\ g_pc = "graphics"
    /\ LET d == GraphicsMember(g_version)
           gate == siblings[d.gate]
       IN  graphics' = [i \in 1..siblings[d.length.field] |->
                           IF OffsetPresent(gate[i]) THEN d.ref ELSE "absent"]
    /\ g_pc' = "done"
    /\ UNCHANGED << g_version, siblings >>
    /\ UNCHANGED << loadVars, schemaVars, complianceVars >>

GateNext ==
    \/ \E version \in GameVersions : StartDecode(version)
    \/ \E n \in 0..MaxGraphics : ReadGraphicCount(n)
    \/ ReadGraphicPtrs
    \/ ReadGraphics

GateStart ==
    /\ LoadInit
    /\ SchemaInit
    /\ ComplianceInit
    /\ GateInit
    /\ cachefile = Absent
    /\ format_version = NoVersion

GateSpec == GateStart /\ [][GateNext]_vars

(***************************************************************************)
(* Helpers of the properties.                                              *)
(***************************************************************************)
Finished == pc \in {"returned", "raised"}

Did(event) == \E i \in 1..Len(events) : events[i] = event

Loadable(file) == file.exists /\ file.readable /\ pickle_loads(file.payload).ok

Corrupted(file) == file.exists /\ file.readable /\ ~pickle_loads(file.payload).ok

\* load_gamespec(fileobj, game_version) with no cachefile_name
LoadWithoutCache(data, version) ==
    LET d == decompress(data)
    IN  IF ~d.ok THEN Failure(d.exc)
        ELSE LET r == read(d.data, 0, version)
             IN  IF ~r.ok THEN Failure(r.exc) ELSE Success(Unwrapped(r.value))

(***************************************************************************)
(* C1: whenever a cache file name is given, whatever the other arguments,  *)
(* the cache file is opened before the dat file is read, and a cache entry *)
(* that exists and loads is what the call returns.                         *)
(***************************************************************************)
C1_CacheConsultedFirst ==
    cachefile_name # None =>
        /\ fileobj.read => Did("open_cache_rb")
        /\ (Finished /\ Loadable(cache_before)) =>
              (pc = "returned" /\ result = pickle_loads(cache_before.payload).value)

(***************************************************************************)
(* C2: a cache file that cannot be opened, read or unpickled is a cache    *)
(* miss: no exception of the cache-load step reaches the caller, and the   *)
(* call goes on to decompress and decode the dat file.                     *)
(***************************************************************************)
C2_RestoreFailureIsMiss ==
    (Finished /\ Did("open_cache_rb") /\ ~cache_hit) =>
        (error.at # "cache_load" /\ Did("decompress"))

(***************************************************************************)
(* C3: once the tree is decoded, failing to open or write the cache file   *)
(* does not keep the call from returning that tree.                        *)
(***************************************************************************)
C3_StoreFailureStillReturns ==
    (Finished /\ Did("open_cache_wb")) => (pc = "returned" /\ result = gamespec)

(***************************************************************************)
(* C4: called with a cache file name whose file is corrupted, the call     *)
(* ends as the call without cache file name ends on the same bytes and     *)
(* version: it returns the same tree.                                      *)
(***************************************************************************)
C4_CorruptCacheSameAsNoCache ==
    (Finished /\ cachefile_name # None /\ Corrupted(cache_before)) =>
        LET plain == LoadWithoutCache(fileobj.data, game_version)
        IN  /\ (pc = "returned") = plain.ok
            /\ plain.ok => result = plain.value

(***************************************************************************)
(* C5: on a cache hit the call returns the unpickled cache content and has *)
(* done nothing else: the dat file object is neither read nor closed,      *)
(* nothing is decompressed or decoded, the cache file is as it was.        *)
(***************************************************************************)
C5_HitDoesNoDecoding ==
    cache_hit =>
        /\ pc = "returned"
        /\ result = pickle_loads(cache_before.payload).value
        /\ ~fileobj.read /\ ~fileobj.closed
        /\ events = << "open_cache_rb", "pickle_load" >>
        /\ compressed_data = << >> /\ file_data = << >> /\ gamespec = NoValue
        /\ cachefile = cache_before

C5_Witness == cache_hit /\ pc = "returned" /\ result = EarlierTree

(***************************************************************************)
(* C6: for an edition that is none of the known ones the schema builder    *)
(* returns no descriptor list.                                             *)
(***************************************************************************)
C6_UnknownEditionHasNoLayout ==
    (schema_version # NoVersion /\ Edition(schema_version) \notin KnownEditions) =>
        data_format = << >>

(***************************************************************************)
(* C7: a call served from the cache returns exactly the tree that the      *)
(* latest call that decoded and dumped under that name returned.           *)
(***************************************************************************)
C7_StoreThenLoadRoundTrip ==
    (cache_hit /\ last_stored # NoValue) => result = last_stored

C7_Witness ==
    cache_hit /\ last_stored # NoValue /\ pc = "returned" /\ result.tag = "member"

(***************************************************************************)
(* C8: on a cache miss the wrapper's member list is, for every version,    *)
(* one READ_EXPORT container of literal length 1 over EmpiresDat, the      *)
(* decoded list has one element, and the call returns that element, not    *)
(* the list.                                                               *)
(***************************************************************************)
C8_ReturnsSingleWrapperElement ==
    (pc = "returned" /\ ~cache_hit) =>
        LET list == read(file_data, 0, game_version).value
        IN  /\ Len(wrapper_format) = 1
            /\ wrapper_format[1].mode = READ_EXPORT
            /\ wrapper_format[1].kind = "ARRAY_CONTAINER"
            /\ wrapper_format[1].length = Literal(1)
            /\ wrapper_format[1].ref = "EmpiresDat"
            /\ list.tag = "list" /\ Len(list.items) = 1
            /\ result = list.items[1]
            /\ result # list /\ result.tag = "member"
            /\ Len(result.items) = 1 /\ result.items[1].tag = "node"

C8_Witness ==
    pc = "returned" /\ ~cache_hit /\ game_version = <<UNLISTED, "NOEXP">>
      /\ result.tag = "member"

(***************************************************************************)
(* C9: in the list the schema builder returns, for every edition, no two   *)
(* descriptors carry the same name, absent names aside.                    *)
(***************************************************************************)
C9_NamesUnique ==
    \A i, j \in 1..Len(data_format) :
        (i # j /\ data_format[i].name # None) =>
            data_format[i].name # data_format[j].name

C9_Witness ==
    /\ Edition(schema_version) = SWGB
    /\ \E i, j \in 1..Len(data_format) :
          i # j /\ data_format[i].name = None /\ data_format[j].name = None

(***************************************************************************)
(* C10: among the fingerprints obtained for the editions there are two,    *)
(* of editions of which one has the six map-bound members and the other    *)
(* has not, that differ.                                                   *)
(***************************************************************************)
HasMapBounds(e) == MapBounds(<< e, "NOEXP" >>) # << >>

C10_FingerprintsDiffer ==
    (\A e \in Editions : hashes[e] # NoHash) =>
        \E e1, e2 \in Editions :
            HasMapBounds(e1) /\ ~HasMapBounds(e2) /\ hashes[e1] # hashes[e2]

Remaining ==
    {i \in 1..Len(found) : ~(fix /\ found[i].apply_fix # None)}

References(d) ==
    (IF d.length.src = "sibling" THEN {d.length.field} ELSE {})
      \cup d.passed
      \cup (IF d.gate # None THEN {d.gate} ELSE {})

StoredBefore(members, i) ==
    {members[j].name : j \in {k \in 1..(i - 1) : members[k].mode \in {READ, READ_EXPORT}}}

C12_ReferencesDecodedEarlier ==
    \A i \in 1..Len(data_format) :
        References(data_format[i]) \subseteq StoredBefore(data_format, i) \ {None}

C12_Witness ==
    /\ Edition(schema_version) = SWGB
    /\ \E i \in 1..Len(data_format) :
          data_format[i].name = "unit_lines" /\ References(data_format[i]) # {}
    /\ \E i \in 1..Len(data_format) : data_format[i].gate # None
    /\ \E i \in 1..Len(data_format) : data_format[i].passed # {}

(***************************************************************************)
(* C14: the list built for any edition has exactly one "terrains"          *)
(* descriptor; it is a READ_EXPORT container of Terrain whose length is    *)
(* the literal 55 for SWGB, 200 for AOE2DE, 96 for AOE1DE, 100 for         *)
(* HDEDITION, 42 for AOC and 32 for any other edition, six different       *)
(* numbers; it comes directly after "padding1".                            *)
(***************************************************************************)
TerrainTable ==
    [e \in Editions |->
        CASE e = SWGB -> Literal(55)
          [] e = AOE2DE -> Literal(200)
          [] e = AOE1DE -> Literal(96)
          [] e = HDEDITION -> Literal(100)
          [] e = AOC -> Literal(42)
          [] OTHER -> Literal(32)]

TerrainPlaces == {i \in 1..Len(data_format) : data_format[i].name = "terrains"}

C14_TerrainsByEdition ==
    schema_version # NoVersion =>
        /\ Cardinality(TerrainPlaces) = 1
        /\ \A i \in TerrainPlaces :
              /\ data_format[i].mode = READ_EXPORT
              /\ data_format[i].kind = "ARRAY_CONTAINER"
              /\ data_format[i].ref = "Terrain"
              /\ data_format[i].length = TerrainTable[Edition(schema_version)]
              /\ i > 1 /\ data_format[i - 1].name = "padding1"
        /\ Cardinality({Terrains(<< e, "NOEXP" >>)[1].length.n : e \in KnownEditions})
              = Cardinality(KnownEditions)

C14_Witness ==
    /\ Edition(schema_version) = HDEDITION
    /\ \E i \in TerrainPlaces : data_format[i].length = Literal(100)

(***************************************************************************)
(* C13: element i of the "graphics" container is decoded exactly when      *)
(* entry i of "graphic_ptrs" is not zero, whatever value of its declared   *)
(* type the entry holds; the gate array and the container take their       *)
(* length from the same sibling "graphic_count" and are equally long.      *)
(***************************************************************************)
NonZero(o) == o.hi # 0 \/ o.lo # 0

C13_GraphicsGatedByNonZeroPointer ==
    g_pc = "done" =>
        /\ GraphicsMember(g_version).gate = "graphic_ptrs"
        /\ GraphicsMember(g_version).length = Sibling("graphic_count")
        /\ GraphicPtrsMember(g_version).length = Sibling("graphic_count")
        /\ Len(siblings["graphic_ptrs"]) = siblings["graphic_count"]
        /\ Len(graphics) = Len(siblings["graphic_ptrs"])
        /\ \A i \in 1..Len(graphics) :
              graphics[i] # "absent" <=> NonZero(siblings["graphic_ptrs"][i])

C13_Witness ==
    /\ g_pc = "done"
    /\ \E i, j \in 1..Len(graphics) :
          /\ graphics[i] = "absent"
          /\ graphics[j] = "Graphic" /\ siblings["graphic_ptrs"][j].hi >= 32768

(***************************************************************************)
(* C15: when the decompression or the decoder raises, the call returns no  *)
(* tree and the cache file is exactly as it was when the call started; the *)
(* cache file is opened for writing only once the tree is decoded and      *)
(* unwrapped.                                                              *)
(***************************************************************************)
C15_FailedDecodeLeavesCache ==
    /\ (pc = "raised" /\ error.at = "decode") =>
          (result = NoValue /\ cachefile = cache_before /\ ~Did("open_cache_wb"))
    /\ (pc # "idle" /\ (Did("open_cache_wb") \/ cachefile # cache_before)) =>
          /\ Did("decompress") /\ Did("decode")
          /\ decompress(fileobj.data).ok
          /\ read(file_data, 0, game_version).ok
          /\ gamespec = Unwrapped(read(file_data, 0, game_version).value)

C15_Witness ==
    /\ pc = "raised" /\ error.exc = "TruncatedInput"
    /\ cachefile_name # None /\ cache_before.exists /\ cache_before.writable

====
